---- MODULE Spec2Model ----
(***************************************************************************)
(* promptsource/seqio_tasks/tasks.py: the module-level script that reads   *)
(* the experiment manifest, registers one seqio task per prompt template   *)
(* (plus a rank-classification variant and the ANLI round tasks) and then  *)
(* registers seven mixtures.                                               *)
(*                                                                         *)
(* Strings that the script only compares are TLA+ strings.  Task names,    *)
(* which the script builds and takes apart ("+", startswith, endswith,     *)
(* split), are sequences of words: the text between two "_".               *)
(***************************************************************************)
EXTENDS Integers, Sequences, FiniteSets, TLC

\* Rows of the manifest that one run reads.
MaxRows == 2

\* Python's None, where the code stores it in place of a string.
None == "<None>"

Range(s) == {s[i] : i \in DOMAIN s}

NoDup(s) == \A i, j \in DOMAIN s : s[i] = s[j] => i = j

\* str.startswith / str.endswith on word sequences
StartsWith(task, prefix) ==
    /\ Len(task) >= Len(prefix)
    /\ SubSeq(task, 1, Len(prefix)) = prefix

EndsWithSuffix(task, suffix) ==
    /\ Len(task) > Len(suffix)
    /\ SubSeq(task, Len(task) - Len(suffix) + 1, Len(task)) = suffix

\* The places where "_" + suffix occurs in task: the suffix's words preceded
\* by a "_", hence never at the first word.
Occurrences(task, suffix) ==
    {i \in 2..(Len(task) - Len(suffix) + 1) :
        SubSeq(task, i, i + Len(suffix) - 1) = suffix}

Min(S) == CHOOSE x \in S : \A y \in S : x <= y

\* task.split("_" + suffix)[0]
SplitHead(task, suffix) ==
    IF Occurrences(task, suffix) = {} THEN task
    ELSE SubSeq(task, 1, Min(Occurrences(task, suffix)) - 1)

SCORE_EVAL == <<"score", "eval">>

----------------------------------------------------------------------------
(* Program constants *)

GET_METRICS ==
    [m \in {"BLEU", "ROUGE", "Span Squad", "Squad", "Trivia QA", "Accuracy",
            "Sequence Accuracy", "Pearson Correlation", "Spearman Correlation",
            "MultiRC", "AUC", "COQA F1", "Edit Distance", "Other"} |->
        CASE m = "BLEU" -> "mt.bleu"
          [] m = "ROUGE" -> "mt.rouge"
          [] m = "Span Squad" -> "mt.span_squad"
          [] m = "Squad" -> "mt.squad"
          [] m = "Trivia QA" -> "mt.trivia_qa"
          [] m = "Accuracy" -> "mt.accuracy"
          [] m = "Sequence Accuracy" -> "mt.sequence_accuracy"
          [] m = "Pearson Correlation" -> "mt.pearson_corrcoef"
          [] m = "Spearman Correlation" -> "mt.spearman_corrcoef"
          [] m = "MultiRC" -> "mt.multirc_f1_over_all_answers"
          [] m = "AUC" -> "mt.auc"
          [] m = "COQA F1" -> "mt.coqa_f1"
          [] m = "Edit Distance" -> "mt.edit_distance"
          [] OTHER -> "mt.accuracy"]

TASK_BLACKLIST ==
    { <<"hotpot", "qa", "distractor", "Generate", "Explanations">>,
      <<"hotpot", "qa", "fullwiki", "Generate", "Explanations">>,
      <<"hotpot", "qa", "distractor", "Generate", "Answer", "and", "Explanations">>,
      <<"hotpot", "qa", "fullwiki", "Generate", "Answer", "and", "Explanations">>,
      <<"hotpot", "qa", "fullwiki", "Generate", "Answer">>,
      <<"hotpot", "qa", "distractor", "Generate", "Answer">>,
      <<"hotpot", "qa", "distractor", "Generate", "Title", "2">>,
      <<"hotpot", "qa", "fullwiki", "Generate", "Title", "2">>,
      <<"hotpot", "qa", "fullwiki", "Generate", "Title", "1">>,
      <<"hotpot", "qa", "distractor", "Generate", "Title", "1">>,
      <<"hotpot", "qa", "distractor", "Generate", "Question">>,
      <<"hotpot", "qa", "fullwiki", "Generate", "Question">>,
      <<"tab", "fact", "tab", "fact", "tab", "fact", "3">>,
      <<"tab", "fact", "tab", "fact", "tab", "fact", "2">>,
      <<"tab", "fact", "tab", "fact", "tab", "fact", "1">>,
      <<"tab", "fact", "tab", "fact", "tab", "fact", "7">>,
      <<"tab", "fact", "tab", "fact", "tab", "fact", "4">>,
      <<"tab", "fact", "tab", "fact", "tab", "fact", "5">>,
      <<"tab", "fact", "tab", "fact", "tab", "fact", "6">>,
      <<"wiki", "hop", "masked", "Choose", "Best", "Object", "Candidate">>,
      <<"wiki", "hop", "masked", "Indirect", "Question", "about", "Birthplace",
        "Citizenship", "Place", "of", "Death">>,
      <<"narrativeqa", "Template", "05">>,
      <<"ecthr", "cases", "alleged", "violation", "prediction", "silver",
        "rationales">>,
      <<"gigaword", "summarize", "">> }

----------------------------------------------------------------------------
(* Inputs: the manifest rows and the template collection on disk *)

Row(skip, hf, subset, train, eval) ==
    [skip |-> skip, HF_name |-> hf, subset |-> subset,
     do_train |-> train, do_eval |-> eval]

\* The rows experiment_D4.csv may hold: flagged for both, for training only,
\* for evaluation only (with a flag in another capitalisation), skipped by a
\* text that is no true value, ANLI flagged for training, and a row that is
\* neither skipped nor flagged.
Rows ==
    { Row("", "super_glue", "rte", "TRUE", "TRUE"),
      Row("", "narrativeqa", "", "TRUE", ""),
      Row("", "narrativeqa", "", "True", "TRUE"),
      Row("FALSE", "super_glue", "rte", "TRUE", "TRUE"),
      Row("", "anli", "", "TRUE", ""),
      Row("", "super_glue", "rte", "FALSE", "") }

\* The target part of template.jinja: free text, or a choice
\* before {{ [labels][index] }} after, which label_list_re matches.
FreeText == [form |-> "free"]

Choice(before, labels, after) ==
    [form |-> "choice", before |-> before, labels |-> labels, after |-> after]

Template(name, target, original, metrics) ==
    [name |-> name, target |-> target,
     metadata |-> [original_task |-> original, metrics |-> metrics]]

YesNo == Choice("", <<"yes", "no">>, "")

\* A list expression that label_list_re matches and eval() evaluates to [].
NoLabels == Choice("", <<>>, "")

SG == <<"super_glue", "rte">>
NQ == <<"narrativeqa", None>>
AN == <<"anli", None>>

\* all_templates.keys, in the order the collection lists them
KeyOrder == <<AN, NQ, SG>>

SuperGlueTemplates ==
    { <<Template("GPT-3 style", YesNo, TRUE, <<"Accuracy">>)>>,
      <<Template("GPT-3 style", FreeText, FALSE, <<"Mean Reciprocal Rank">>)>>,
      <<Template("GPT-3 style", YesNo, TRUE, <<"Accuracy">>),
        Template("GPT-3 style score eval", FreeText, TRUE, <<"Accuracy">>)>>,
      <<Template("GPT-3 style", NoLabels, TRUE, <<"Accuracy">>)>> }

NarrativeQATemplates ==
    { <<Template("Template_05", YesNo, TRUE, <<"BLEU", "ROUGE">>),
        Template("Template_01", FreeText, FALSE, <<"BLEU">>)>>,
      <<Template("Template_05", FreeText, TRUE, <<"Other">>)>>,
      <<Template("Template_01", YesNo, TRUE, <<"Accuracy">>),
        Template("Template_02", FreeText, TRUE, <<"Mean Reciprocal Rank">>)>>,
      <<Template("Template_01", Choice("It is ", <<"true", "false">>, "."),
                 TRUE, <<"Squad">>)>> }

AnliTemplates ==
    { <<Template("can we infer", YesNo, TRUE, <<"Accuracy">>)>>,
      <<Template("can we infer", YesNo, FALSE, <<"Accuracy">>),
        Template("MNLI crowdsource", FreeText, TRUE, <<"Accuracy">>)>>,
      <<Template("can we infer", FreeText, TRUE, <<"Mean Reciprocal Rank">>)>> }

\* The words of the strings that take part in task names: the text between
\* the runs of characters that get_task_name replaces by "_".
\* The collections considered give distinct names to distinct
\* (dataset, subset, template).
Words(str) ==
    CASE str = "super_glue" -> <<"super", "glue">>
      [] str = "GPT-3 style" -> <<"GPT", "3", "style">>
      [] str = "GPT-3 style score eval" -> <<"GPT", "3", "style", "score", "eval">>
      [] str = "Template_05" -> <<"Template", "05">>
      [] str = "Template_01" -> <<"Template", "01">>
      [] str = "Template_02" -> <<"Template", "02">>
      [] str = "can we infer" -> <<"can", "we", "infer">>
      [] str = "MNLI crowdsource" -> <<"MNLI", "crowdsource">>
      [] OTHER -> <<str>>

get_task_name(dataset_name, subset_name, template_name) ==
    Words(dataset_name)
      \o (IF subset_name = None THEN <<>> ELSE Words(subset_name))
      \o Words(template_name)

\* utils.get_dataset_splits: split name -> num_examples.  The counts are sample
\* data, distinct within a dataset so that a split read under another name
\* shows.
get_dataset_splits(dataset_name, subset_name) ==
    IF dataset_name = "anli"
    THEN [k \in {"train_r1", "dev_r1", "test_r1", "train_r2", "dev_r2",
                 "test_r2", "train_r3", "dev_r3", "test_r3"} |->
            CASE k = "train_r1" -> 16946
              [] k = "train_r2" -> 45460
              [] k = "train_r3" -> 100459
              [] k = "dev_r3" -> 1200
              [] k = "test_r3" -> 1201
              [] k = "dev_r1" -> 1000
              [] k = "test_r1" -> 1001
              [] k = "dev_r2" -> 1002
              [] OTHER -> 1003]
    ELSE IF dataset_name = "super_glue"
    THEN [k \in {"train", "validation", "test"} |->
            CASE k = "train" -> 2490 [] k = "validation" -> 277 [] OTHER -> 3000]
    ELSE [k \in {"train", "validation", "test"} |->
            CASE k = "train" -> 32747 [] k = "validation" -> 3461 [] OTHER -> 10557]

----------------------------------------------------------------------------
VARIABLES
    disk,           \* the template files: key -> templates, in name order
    pc,             \* "manifest", "main", "anli", "mixtures", "done"
    error,          \* "" or the exception that ended the script
    manifest,       \* the rows of the csv file read so far
    row,            \* the loop variable of the manifest loop, <<>> before it
    train_sets, eval_sets, do_train, do_eval, train_or_eval,
    all_templates,  \* the collection in memory: key -> templates
    loop_keys,      \* the keys the main loop has yet to visit
    ti,             \* the next template of the key being visited
    ri, ai,         \* the ANLI round and the next ANLI template
    tasks,          \* seqio.TaskRegistry, in registration order
    addCalls,       \* the names seqio.TaskRegistry.add was called with
    train_mixture, eval_mixture,
    mixtures        \* seqio.MixtureRegistry, in registration order

vars == <<disk, pc, error, manifest, row, train_sets, eval_sets, do_train,
          do_eval, train_or_eval, all_templates, loop_keys, ti, ri, ai,
          tasks, addCalls, train_mixture, eval_mixture, mixtures>>

Collections ==
    {[k \in {AN, NQ, SG} |->
        CASE k = AN -> a [] k = NQ -> n [] OTHER -> s] :
        a \in AnliTemplates, n \in NarrativeQATemplates, s \in SuperGlueTemplates}

Init ==
    /\ disk \in Collections
    /\ pc = "manifest"
    /\ error = ""
    /\ manifest = <<>>
    /\ row = <<>>
    /\ train_sets = <<>>
    /\ eval_sets = <<>>
    /\ do_train = <<>>
    /\ do_eval = <<>>
    /\ train_or_eval = <<>>
    /\ all_templates = <<>>
    /\ loop_keys = <<>>
    /\ ti = 1
    /\ ri = 1
    /\ ai = 1
    /\ tasks = <<>>
    /\ addCalls = <<>>
    /\ train_mixture = <<>>
    /\ eval_mixture = <<>>
    /\ mixtures = <<>>

----------------------------------------------------------------------------
(* add_task and its helpers *)

\* label_list_re matches a choice; eval() gives its list, each label wrapped
\* in the text before and after the braces.  No match: Python returns None.
get_label_strings(template) ==
    IF template.target.form = "choice"
    THEN [is_none |-> FALSE,
          list |-> [i \in DOMAIN template.target.labels |->
                      <<template.target.before, template.target.labels[i],
                        template.target.after>>]]
    ELSE [is_none |-> TRUE, list |-> <<>>]

\* Python's truth value of get_label_strings' result: "if labels:"
Truthy(labels) == ~labels.is_none /\ Len(labels.list) > 0

maybe_get_class_id_postprocessor(template) ==
    IF ~get_label_strings(template).is_none
    THEN [fn |-> "string_label_to_class_id",
          label_classes |-> get_label_strings(template).list]
    ELSE [fn |-> "strip_whitespace", label_classes |-> <<>>]

\* GET_METRICS.get(m): the lookup that gives None for a missing key
GetMetric_get(m) ==
    IF m \in DOMAIN GET_METRICS
    THEN [error |-> "", value |-> GET_METRICS[m]]
    ELSE [error |-> "", value |-> None]

\* GET_METRICS[m]: a dict lookup, which raises KeyError for a missing key.
GetMetric(m) ==
    IF m \in DOMAIN GET_METRICS
    THEN [error |-> "", value |-> GET_METRICS[m]]
    ELSE [error |-> "KeyError", value |-> None]

\* Lines 82-91: the metric functions of the task, or the exception of the
\* lookup.  The glue and super_glue metrics come from t5 by subset name.
SelectMetrics(dataset_name, subset_name, template) ==
    IF dataset_name = "glue"
    THEN [error |-> "", metric_fns |-> <<"get_glue_metric", subset_name>>]
    ELSE IF dataset_name = "super_glue"
    THEN IF subset_name \in {"wsc.fixed", "multirc"}
         THEN [error |-> "", metric_fns |-> <<"mt.accuracy">>]
         ELSE [error |-> "",
               metric_fns |-> <<"get_super_glue_metric", subset_name>>]
    ELSE LET found == [i \in DOMAIN template.metadata.metrics |->
                          GetMetric(template.metadata.metrics[i])]
         IN  [error |-> IF \E i \in DOMAIN found : found[i].error # ""
                        THEN "KeyError" ELSE "",
              metric_fns |-> [i \in DOMAIN found |-> found[i].value]]

\* The identity mapping whatever the caller passed
SplitMapping_identity(split_mapping, dataset_splits) ==
    [k \in DOMAIN dataset_splits |-> k]

\* "split_mapping or {k: k for k in dataset_splits.keys()}"
SplitMapping(split_mapping, dataset_splits) ==
    IF DOMAIN split_mapping = {}
    THEN [k \in DOMAIN dataset_splits |-> k]
    ELSE split_mapping

NumInputExamples(split_mapping, dataset_splits) ==
    [s \in DOMAIN split_mapping |-> dataset_splits[split_mapping[s]]]

DataSource(dataset_name, subset_name, template, split_mapping, dataset_splits) ==
    [dataset_name |-> dataset_name,
     subset_name |-> subset_name,
     template |-> template.name,
     split_mapping |-> split_mapping,
     splits |-> DOMAIN split_mapping,
     num_input_examples |-> NumInputExamples(split_mapping, dataset_splits)]

TaskNames(reg) == [i \in DOMAIN reg |-> reg[i].name]

BaseTask(task_name, data_source, metrics, template) ==
    [name |-> task_name,
     source |-> data_source,
     preprocessors |-> <<"tokenize", "append_eos">>,
     metric_fns |-> metrics,
     postprocess_fn |-> maybe_get_class_id_postprocessor(template)]

ScoreEvalTask(task_name, data_source, labels) ==
    [name |-> task_name \o SCORE_EVAL,
     source |-> data_source,
     preprocessors |-> <<"rank_classification", "tokenize", "append_eos">>,
     metric_fns |-> <<"rank_classification", Len(labels.list)>>,
     postprocess_fn |-> [fn |-> "rank_classification", label_classes |-> <<>>]]

\* Whether add_task goes on to register the rank classification task.
HasScoreEval(template) == Truthy(get_label_strings(template))

\* seqio.TaskRegistry.add raises ValueError for a name it already holds; the
\* call is recorded either way.
AddResult(reg, calls, task) ==
    IF task.name \in Range(TaskNames(reg))
    THEN [tasks |-> reg, addCalls |-> Append(calls, task.name),
          error |-> "ValueError"]
    ELSE [tasks |-> Append(reg, task), addCalls |-> Append(calls, task.name),
          error |-> ""]

\* add_task(dataset_name, subset_name, template_name, task_name, split_mapping)
\* on the registry reg: the registry, the calls made and the exception it
\* ends with, if any.  task_name <<>> and split_mapping <<>> are the defaults.
add_task(reg, calls, dataset_name, subset_name, template_name, task_name_arg, split_mapping_arg) ==
    LET template == CHOOSE t \in Range(disk[<<dataset_name, subset_name>>]) :
                        t.name = template_name
        task_name == IF task_name_arg = <<>>
                     THEN get_task_name(dataset_name, subset_name, template_name)
                     ELSE task_name_arg
        dataset_splits == get_dataset_splits(dataset_name, subset_name)
        split_mapping == SplitMapping(split_mapping_arg, dataset_splits)
        data_source == DataSource(dataset_name, subset_name, template,
                                  split_mapping, dataset_splits)
        metrics == SelectMetrics(dataset_name, subset_name, template)
        first == AddResult(reg, calls,
                           BaseTask(task_name, data_source, metrics.metric_fns,
                                    template))
    IN  IF metrics.error # ""
        THEN [tasks |-> reg, addCalls |-> calls, error |-> metrics.error]
        ELSE IF \E s \in DOMAIN split_mapping :
                    split_mapping[s] \notin DOMAIN dataset_splits
        THEN [tasks |-> reg, addCalls |-> calls, error |-> "KeyError"]
        ELSE IF first.error # "" THEN first
        ELSE IF HasScoreEval(template)
        THEN AddResult(first.tasks, first.addCalls,
                       ScoreEvalTask(task_name, data_source,
                                     get_label_strings(template)))
        ELSE first

----------------------------------------------------------------------------
(* The manifest loop, lines 149-166 *)

\* A skip column read as a truth value
Skipped_true_only(r) == r.skip = "TRUE"

\* "if row['skip']: continue"
Skipped(r) == r.skip # ""

\* "if row['subset'] == '': row['subset'] = None"
NormalizeSubset(r) == IF r.subset = "" THEN [r EXCEPT !.subset = None] ELSE r

\* "== 'TRUE'"
Flagged(value) == value = "TRUE"

ReadRow ==
    /\ pc = "manifest"
    /\ error = ""
    /\ Len(manifest) < MaxRows
    /\ \E r \in Rows :
        /\ manifest' = Append(manifest, r)
        /\ IF Skipped(r)
           THEN /\ row' = r
                /\ UNCHANGED <<train_sets, eval_sets, do_train, do_eval>>
           ELSE LET r1 == NormalizeSubset(r)
                IN  /\ row' = r1
                    /\ train_sets' = IF Flagged(r1.do_train)
                                     THEN Append(train_sets, r1) ELSE train_sets
                    /\ do_train' = IF Flagged(r1.do_train)
                                   THEN Append(do_train, <<r1.HF_name, r1.subset>>)
                                   ELSE do_train
                    /\ eval_sets' = IF Flagged(r1.do_eval)
                                    THEN Append(eval_sets, r1) ELSE eval_sets
                    /\ do_eval' = IF Flagged(r1.do_eval)
                                  THEN Append(do_eval, <<r1.HF_name, r1.subset>>)
                                  ELSE do_eval
    /\ UNCHANGED <<disk, pc, error, train_or_eval, all_templates, loop_keys, ti,
                   ri, ai, tasks, addCalls, train_mixture, eval_mixture, mixtures>>

----------------------------------------------------------------------------
(* The template collection *)

\* TemplateCollection.remove
RemoveKey(coll, key) == [k \in DOMAIN coll \ {key} |-> coll[k]]

\* TemplateCollection.get_dataset loads a dataset that the collection does
\* not hold from its template file.
LoadKey(coll, key) == [k \in DOMAIN coll \cup {key} |->
                          IF k \in DOMAIN coll THEN coll[k] ELSE disk[k]]

\* TemplateCollection.keys: a list of its own, taken when the loop starts
KeysOf(coll) ==
    LET Held(k) == k \in DOMAIN coll IN SelectSeq(KeyOrder, Held)

\* Lines 168-175: the end of the file, train_or_eval, the collection without
\* ANLI, the empty mixtures, and the main loop's iterator.
EndManifest ==
    /\ pc = "manifest"
    /\ error = ""
    /\ train_or_eval' = do_train \o do_eval
    /\ all_templates' = RemoveKey(disk, AN)
    /\ train_mixture' = <<>>
    /\ eval_mixture' = <<>>
    /\ loop_keys' = KeysOf(RemoveKey(disk, AN))
    /\ ti' = 1
    /\ pc' = IF KeysOf(RemoveKey(disk, AN)) = <<>> THEN "anli" ELSE "main"
    /\ UNCHANGED <<disk, error, manifest, row, train_sets, eval_sets, do_train,
                   do_eval, ri, ai, tasks, addCalls, mixtures>>

----------------------------------------------------------------------------
(* The main loop, lines 176-191 *)

\* The membership test made against do_train alone
InTrainOrEval_train_only(key) == key \in Range(do_train)

\* "if (dataset_name, subset_name) not in train_or_eval"
InTrainOrEval(key) == key \in Range(train_or_eval)

\* The training test made against train_or_eval
TrainAppend_train_or_eval(key, DST_name) ==
    IF key \in Range(train_or_eval) THEN <<DST_name>> ELSE <<>>

\* One entry per row of do_train that names the key
TrainAppend_per_row(key, DST_name) ==
    [i \in 1..Cardinality({j \in DOMAIN do_train : do_train[j] = key}) |->
        DST_name]

\* Lines 186-187: what the loop appends to train_mixture
TrainAppend(key, DST_name) ==
    IF key \in Range(do_train) THEN <<DST_name>> ELSE <<>>

\* Lines 188-191: what the loop appends to eval_mixture
EvalAppend(key, template, DST_name) ==
    IF key \in Range(do_eval) /\ template.metadata.original_task
    THEN <<DST_name>> ELSE <<>>

RemoveDataset ==
    /\ pc = "main"
    /\ error = ""
    /\ loop_keys # <<>>
    /\ ~InTrainOrEval(Head(loop_keys))
    /\ all_templates' = RemoveKey(all_templates, Head(loop_keys))
    /\ loop_keys' = Tail(loop_keys)
    /\ pc' = IF Tail(loop_keys) = <<>> THEN "anli" ELSE "main"
    /\ UNCHANGED <<disk, error, manifest, row, train_sets, eval_sets, do_train,
                   do_eval, train_or_eval, ti, ri, ai, tasks, addCalls,
                   train_mixture, eval_mixture, mixtures>>

RegisterTemplate ==
    /\ pc = "main"
    /\ error = ""
    /\ loop_keys # <<>>
    /\ InTrainOrEval(Head(loop_keys))
    /\ LET key == Head(loop_keys)
           dataset == all_templates[key]
           template == dataset[ti]
           res == add_task(tasks, addCalls, key[1], key[2], template.name,
                           <<>>, <<>>)
           DST_name == get_task_name(key[1], key[2], template.name)
       IN  /\ tasks' = res.tasks
           /\ addCalls' = res.addCalls
           /\ error' = res.error
           /\ IF res.error # ""
              THEN UNCHANGED <<train_mixture, eval_mixture, loop_keys, ti, pc>>
              ELSE /\ train_mixture' = train_mixture \o TrainAppend(key, DST_name)
                   /\ eval_mixture' =
                        eval_mixture \o EvalAppend(key, template, DST_name)
                   /\ IF ti < Len(dataset)
                      THEN /\ ti' = ti + 1
                           /\ UNCHANGED <<loop_keys, pc>>
                      ELSE /\ ti' = 1
                           /\ loop_keys' = Tail(loop_keys)
                           /\ pc' = IF Tail(loop_keys) = <<>>
                                    THEN "anli" ELSE "main"
    /\ UNCHANGED <<disk, manifest, row, train_sets, eval_sets, do_train, do_eval,
                   train_or_eval, all_templates, ri, ai, mixtures>>

----------------------------------------------------------------------------
(* The ANLI special case, lines 195-206 *)

AnliRounds == <<"r1", "r2", "r3">>

AnliSplitMapping(anli_round) ==
    [k \in {"train", "validation", "test"} |->
        CASE k = "train" ->
               (CASE anli_round = "r1" -> "train_r1"
                  [] anli_round = "r2" -> "train_r2"
                  [] OTHER -> "train_r3")
          [] k = "validation" ->
               (CASE anli_round = "r1" -> "dev_r1"
                  [] anli_round = "r2" -> "dev_r2"
                  [] OTHER -> "dev_r3")
          [] OTHER ->
               (CASE anli_round = "r1" -> "test_r1"
                  [] anli_round = "r2" -> "test_r2"
                  [] OTHER -> "test_r3")]

AnliTaskName(template_name, anli_round) ==
    get_task_name("anli", None, template_name) \o <<anli_round>>

\* Line 206: what the special case appends to eval_mixture
AnliEvalAppend(template, task_name) == <<task_name>>

AnliTask ==
    /\ pc = "anli"
    /\ error = ""
    /\ LET dataset == LoadKey(all_templates, AN)[AN]
           template == dataset[ai]
           task_name == AnliTaskName(template.name, AnliRounds[ri])
           res == add_task(tasks, addCalls, "anli", None, template.name,
                           task_name, AnliSplitMapping(AnliRounds[ri]))
       IN  /\ all_templates' = LoadKey(all_templates, AN)
           /\ tasks' = res.tasks
           /\ addCalls' = res.addCalls
           /\ error' = res.error
           /\ IF res.error # ""
              THEN UNCHANGED <<eval_mixture, ri, ai, pc>>
              ELSE /\ eval_mixture' =
                        eval_mixture \o AnliEvalAppend(template, task_name)
                   /\ IF ai < Len(dataset)
                      THEN /\ ai' = ai + 1
                           /\ UNCHANGED <<ri, pc>>
                      ELSE /\ ai' = 1
                           /\ IF ri < Len(AnliRounds)
                              THEN /\ ri' = ri + 1
                                   /\ UNCHANGED pc
                              ELSE /\ pc' = "mixtures"
                                   /\ UNCHANGED ri
    /\ UNCHANGED <<disk, manifest, row, train_sets, eval_sets, do_train, do_eval,
                   train_or_eval, loop_keys, ti, train_mixture, mixtures>>

----------------------------------------------------------------------------
(* The mixtures, lines 248-296 *)

NotBlacklisted(task) == task \notin TASK_BLACKLIST

AllTasksCombined == SelectSeq(TaskNames(tasks), NotBlacklisted)

AllSuperGlueTasks ==
    LET Test(task) == StartsWith(task, Words("super_glue"))
    IN  SelectSeq(TaskNames(tasks), Test)

\* clean_tasks built without the deny-list filter
CleanTasks_unfiltered == train_mixture

CleanTasks == SelectSeq(train_mixture, NotBlacklisted)

CleanEvalTasks == SelectSeq(eval_mixture, NotBlacklisted)

AnliEvalTasks ==
    LET Test(task) == StartsWith(task, Words("anli"))
    IN  SelectSeq(eval_mixture, Test)

ScoreEvalTasks ==
    LET Test(task) == EndsWithSuffix(task, SCORE_EVAL)
    IN  SelectSeq(TaskNames(tasks), Test)

CleanScoreEvalTasks ==
    LET Test(task) ==
            /\ EndsWithSuffix(task, SCORE_EVAL)
            /\ SplitHead(task, SCORE_EVAL) \in Range(eval_mixture)
            /\ SplitHead(task, SCORE_EVAL) \notin TASK_BLACKLIST
    IN  SelectSeq(TaskNames(tasks), Test)

Capped == "mixing_rate_num_examples(maximum=500_000)"

Mixture(name, task_list, rate) ==
    [name |-> name, tasks |-> task_list, default_rate |-> rate]

\* The seven seqio.MixtureRegistry.add calls, in the order of the script
MixtureCalls ==
    << Mixture("all_tasks_combined_max_1m", AllTasksCombined, Capped),
       Mixture("all_super_glue_tasks", AllSuperGlueTasks,
               "mixing_rate_num_examples"),
       Mixture("clean_tasks", CleanTasks, Capped),
       Mixture("clean_eval_tasks", CleanEvalTasks, Capped),
       Mixture("anli_eval_tasks", AnliEvalTasks, Capped),
       Mixture("score_eval_tasks", ScoreEvalTasks, Capped),
       Mixture("clean_score_eval_tasks", CleanScoreEvalTasks, Capped) >>

RegisterMixture ==
    /\ pc = "mixtures"
    /\ error = ""
    /\ mixtures' = Append(mixtures, MixtureCalls[Len(mixtures) + 1])
    /\ pc' = IF Len(mixtures) + 1 = Len(MixtureCalls) THEN "done" ELSE "mixtures"
    /\ UNCHANGED <<disk, error, manifest, row, train_sets, eval_sets, do_train,
                   do_eval, train_or_eval, all_templates, loop_keys, ti, ri, ai,
                   tasks, addCalls, train_mixture, eval_mixture>>

Next ==
    \/ ReadRow
    \/ EndManifest
    \/ RemoveDataset
    \/ RegisterTemplate
    \/ AnliTask
    \/ RegisterMixture

Spec == Init /\ [][Next]_vars

----------------------------------------------------------------------------
(* Vocabulary of the properties, stated over the input files and the two   *)
(* registries rather than over the script's own intermediate lists         *)

RegisteredNames == Range(TaskNames(tasks))

\* The (dataset, subset) key that a manifest row names
RowKey(r) == <<r.HF_name, IF r.subset = "" THEN None ELSE r.subset>>

\* Some non-skipped row of the manifest flags the key for training / evaluation
TrainRow(key) ==
    \E i \in DOMAIN manifest :
        manifest[i].skip = "" /\ RowKey(manifest[i]) = key
        /\ manifest[i].do_train = "TRUE"

EvalRow(key) ==
    \E i \in DOMAIN manifest :
        manifest[i].skip = "" /\ RowKey(manifest[i]) = key
        /\ manifest[i].do_eval = "TRUE"

\* The main loop has visited every key
MainLoopOver == pc \in {"anli", "mixtures", "done"}

\* The task list of the registered mixture of that name
Registered(mixture_name) ==
    {mixtures[i].tasks : i \in {j \in DOMAIN mixtures :
                                   mixtures[j].name = mixture_name}}

NameOf(key, template) == get_task_name(key[1], key[2], template.name)

----------------------------------------------------------------------------
\* C1: once registered, none of the seven mixtures holds a task whose name
\* is in TASK_BLACKLIST, whatever the manifest and the template collection.
C1_NoDenyListedTaskInAnyMixture ==
    \A i \in DOMAIN mixtures :
        /\ mixtures[i].name \in
             {"all_tasks_combined_max_1m", "all_super_glue_tasks", "clean_tasks",
              "clean_eval_tasks", "anli_eval_tasks", "score_eval_tasks",
              "clean_score_eval_tasks"}
        /\ \A j \in DOMAIN mixtures[i].tasks :
               mixtures[i].tasks[j] \notin TASK_BLACKLIST

\* The script has run to its end with a deny-listed task registered and
\* collected for training and for evaluation.
C1_Witness ==
    /\ pc = "done"
    /\ Len(mixtures) = 7
    /\ \E t \in TASK_BLACKLIST :
        /\ t \in RegisteredNames
        /\ t \in Range(train_mixture)
        /\ t \in Range(eval_mixture)

----------------------------------------------------------------------------
\* C2: after the main loop, for every key of the collection other than anli,
\* the tasks named after the key's templates are all registered if and only
\* if a non-skipped manifest row with that dataset and subset has do_train or
\* do_eval equal to 'TRUE'; a key that no such row selects has been removed
\* from the collection and no registered task reads it.
C2_RegistryHoldsTheManifestsTasks ==
    MainLoopOver =>
        \A key \in DOMAIN disk \ {AN} :
            /\ (\A i \in DOMAIN disk[key] :
                    NameOf(key, disk[key][i]) \in RegisteredNames)
                 <=> (TrainRow(key) \/ EvalRow(key))
            /\ ~(TrainRow(key) \/ EvalRow(key)) =>
                 /\ key \notin DOMAIN all_templates
                 /\ \A i \in DOMAIN disk[key] :
                        NameOf(key, disk[key][i]) \notin RegisteredNames
                 /\ \A j \in DOMAIN tasks :
                        <<tasks[j].source.dataset_name,
                          tasks[j].source.subset_name>> # key

\* The script has finished with one key selected (for evaluation only) and
\* the other key selected by no row.
C2_Witness ==
    /\ pc = "done"
    /\ EvalRow(NQ) /\ ~TrainRow(NQ)
    /\ ~TrainRow(SG) /\ ~EvalRow(SG)
    /\ Len(manifest) = 2

----------------------------------------------------------------------------
\* The template that a registered task was built from
TemplateOf(task) ==
    CHOOSE t \in Range(disk[<<task.source.dataset_name,
                              task.source.subset_name>>]) :
        t.name = task.source.template

\* The tasks registered by add_task's first call to the registry
BaseTasks == {t \in Range(tasks) : t.postprocess_fn.fn # "rank_classification"}

\* What the claim calls a non-empty list returned by get_label_strings
HasFixedLabels(template) ==
    template.target.form = "choice" /\ Len(template.target.labels) > 0

\* C3: for every task T registered by add_task, the task T_score_eval is
\* registered if and only if get_label_strings gives a non-empty list for
\* T's template; every registered name ending in _score_eval has its base
\* task registered, with the same data source; and T's postprocessor is the
\* class-id postprocessor exactly when T_score_eval exists, strip_whitespace
\* otherwise.
C3_ScoreEvalExactlyWithFixedLabels ==
    /\ \A t \in BaseTasks :
        /\ (t.name \o SCORE_EVAL \in RegisteredNames)
             <=> HasFixedLabels(TemplateOf(t))
        /\ t.postprocess_fn.fn =
             IF t.name \o SCORE_EVAL \in RegisteredNames
             THEN "string_label_to_class_id" ELSE "strip_whitespace"
    /\ \A v \in Range(tasks) :
        EndsWithSuffix(v.name, SCORE_EVAL) =>
            \E t \in Range(tasks) :
                /\ t.name \o SCORE_EVAL = v.name
                /\ t.source = v.source

----------------------------------------------------------------------------
\* C5: every name in eval_mixture is the task name of a template whose
\* metadata.original_task is true, for the tasks of the main loop and for
\* the ANLI round tasks alike.
C5_EvalMixtureHoldsOriginalTasksOnly ==
    \A i \in DOMAIN eval_mixture :
        \E key \in DOMAIN disk : \E j \in DOMAIN disk[key] :
            /\ disk[key][j].metadata.original_task
            /\ \/ key # AN /\ eval_mixture[i] = NameOf(key, disk[key][j])
               \/ key = AN /\ \E r \in {"r1", "r2", "r3"} :
                     eval_mixture[i] = NameOf(key, disk[key][j]) \o <<r>>

----------------------------------------------------------------------------
\* C8: in each mixture filtered by TASK_BLACKLIST (all_tasks_combined_max_1m,
\* clean_tasks, clean_eval_tasks, clean_score_eval_tasks) neither a
\* deny-listed task T nor its rank classification variant T_score_eval is a
\* member.
C8_DenyListKeepsOutDerivedTasks ==
    \A i \in DOMAIN mixtures :
        mixtures[i].name \in {"all_tasks_combined_max_1m", "clean_tasks",
                              "clean_eval_tasks", "clean_score_eval_tasks"} =>
            \A j \in DOMAIN mixtures[i].tasks : \A T \in TASK_BLACKLIST :
                /\ mixtures[i].tasks[j] # T
                /\ mixtures[i].tasks[j] # T \o SCORE_EVAL

----------------------------------------------------------------------------
\* The task list of clean_tasks covers exactly the templates of the keys in
\* Keys that a non-skipped row flags for training, less the deny-list.
CleanTasksCover(Keys) ==
    \A clean \in Registered("clean_tasks") :
        /\ \A key \in Keys : \A i \in DOMAIN disk[key] :
               (TrainRow(key) /\ NameOf(key, disk[key][i]) \notin TASK_BLACKLIST)
                   => NameOf(key, disk[key][i]) \in Range(clean)
        /\ \A n \in Range(clean) :
               /\ n \notin TASK_BLACKLIST
               /\ \E key \in Keys : \E i \in DOMAIN disk[key] :
                      TrainRow(key) /\ n = NameOf(key, disk[key][i])

\* C4 as stated: for every non-skipped manifest row with do_train = 'TRUE',
\* every template of the row's (HF_name, subset) whose task name is not
\* deny-listed has its task in clean_tasks, and clean_tasks holds nothing
\* else.
C4_CleanTasksCoverEveryTrainingRow == CleanTasksCover(DOMAIN disk)

\* C4, amended: the same for every such row whose dataset is not anli: the
\* templates of anli get no task in clean_tasks even when a row flags anli
\* for training.
C4_CleanTasksCoverTrainingRowsButAnli ==
    /\ CleanTasksCover(DOMAIN disk \ {AN})
    /\ \A clean \in Registered("clean_tasks") : \A n \in Range(clean) :
           ~StartsWith(n, Words("anli"))

\* clean_tasks is registered, holds a task, and the deny-list has removed a
\* task of a dataset flagged for training.
C4_Witness ==
    /\ pc = "done"
    /\ TrainRow(NQ) /\ TrainRow(SG)
    /\ \E clean \in Registered("clean_tasks") :
        /\ clean # <<>>
        /\ \E t \in Range(train_mixture) : t \notin Range(clean)

----------------------------------------------------------------------------
\* The template that the next step of the script hands to add_task, with
\* the name the task is to get.
AtMainTemplate ==
    /\ pc = "main" /\ error = "" /\ loop_keys # <<>>
    /\ Head(loop_keys) \in Range(train_or_eval)

AtAnliTemplate == pc = "anli" /\ error = ""

NextTemplate ==
    IF pc = "main" THEN disk[Head(loop_keys)][ti] ELSE disk[AN][ai]

NextDataset == IF pc = "main" THEN Head(loop_keys)[1] ELSE "anli"

NextTaskName ==
    IF pc = "main" THEN NameOf(Head(loop_keys), NextTemplate)
    ELSE NameOf(AN, NextTemplate) \o <<AnliRounds[ri]>>

ListsUnknownMetric(template) ==
    \E i \in DOMAIN template.metadata.metrics :
        template.metadata.metrics[i] \notin DOMAIN GET_METRICS

UnknownMetricAhead ==
    /\ AtMainTemplate \/ AtAnliTemplate
    /\ NextDataset \notin {"glue", "super_glue"}
    /\ ListsUnknownMetric(NextTemplate)

IsPrefix(s, t) == Len(s) <= Len(t) /\ SubSeq(t, 1, Len(s)) = s

\* C6: when add_task is given a template of a dataset other than glue and
\* super_glue that lists a metric name missing from GET_METRICS, it fails with
\* KeyError before it calls seqio.TaskRegistry.add (and only then does the
\* script end with KeyError): neither the task nor its _score_eval variant
\* is registered, the tasks registered earlier stay registered, and no
\* mixture is ever registered after a failure; mixtures are registered only
\* after the last task.
C6_UnknownMetricStopsThePass ==
    /\ [][ /\ UnknownMetricAhead =>
               /\ error' = "KeyError"
               /\ tasks' = tasks
               /\ addCalls' = addCalls
               /\ NextTaskName \notin Range(TaskNames(tasks'))
               /\ NextTaskName \o SCORE_EVAL \notin Range(TaskNames(tasks'))
           /\ (error = "" /\ error' = "KeyError") => UnknownMetricAhead
           /\ IsPrefix(tasks, tasks')
           /\ error # "" => (error' = error /\ mixtures' = mixtures)
           /\ mixtures' # <<>> => tasks' = tasks ]_vars
    /\ [](error # "" => mixtures = <<>>)

\* The pass has stopped on an unknown metric after it had registered tasks.
C6_Witness ==
    /\ error = "KeyError"
    /\ pc = "main"
    /\ Len(tasks) = 2
    /\ mixtures = <<>>

----------------------------------------------------------------------------
\* What the manifest loop does with the row r that it has just read
RowEffect(r, unless_skipped) ==
    LET kept == [r EXCEPT !.subset = IF r.subset = "" THEN None ELSE r.subset]
        pair == <<r.HF_name, kept.subset>>
    IN  /\ unless_skipped
        /\ r.skip = "" =>
            /\ do_train' = IF r.do_train = "TRUE"
                           THEN Append(do_train, pair) ELSE do_train
            /\ train_sets' = IF r.do_train = "TRUE"
                             THEN Append(train_sets, kept) ELSE train_sets
            /\ do_eval' = IF r.do_eval = "TRUE"
                          THEN Append(do_eval, pair) ELSE do_eval
            /\ eval_sets' = IF r.do_eval = "TRUE"
                            THEN Append(eval_sets, kept) ELSE eval_sets
        /\ Len(train_sets') = Len(do_train')
        /\ Len(eval_sets') = Len(do_eval')

ContributesNothing == UNCHANGED <<train_sets, eval_sets, do_train, do_eval>>

\* C7 as stated: a row contributes to nothing if and only if its skip column
\* is a non-empty string; a non-skipped row has '' as subset replaced by
\* None and is appended to do_train (do_eval) exactly when do_train (do_eval)
\* is 'TRUE'; the lists train_sets and do_train, eval_sets and do_eval have
\* equal lengths after every row.
C7_RowSkippedIffContributesNothing ==
    [][manifest' # manifest =>
         RowEffect(manifest'[Len(manifest')],
                   ContributesNothing <=> manifest'[Len(manifest')].skip # "")]_vars

\* C7, amended: a row whose skip column is a non-empty string contributes to
\* nothing (and so does a non-skipped row with neither flag 'TRUE'); the
\* rest as stated.
C7_SkippedRowContributesNothing ==
    [][manifest' # manifest =>
         RowEffect(manifest'[Len(manifest')],
                   manifest'[Len(manifest')].skip # "" => ContributesNothing)]_vars

\* A row skipped by the text FALSE although both its flags are TRUE, then a
\* row with an empty subset and do_train = 'True' that is appended to do_eval
\* alone, under None.
C7_Witness ==
    /\ Len(manifest) = 2
    /\ manifest[1].skip = "FALSE" /\ manifest[1].do_train = "TRUE"
    /\ manifest[2].skip = "" /\ manifest[2].subset = ""
    /\ manifest[2].do_train = "True"
    /\ do_train = <<>>
    /\ do_eval = <<<<"narrativeqa", None>>>>
    /\ row.subset = None

----------------------------------------------------------------------------
AnliSplits(r) ==
    CASE r = "r1" -> [train |-> "train_r1", validation |-> "dev_r1",
                      test |-> "test_r1"]
      [] r = "r2" -> [train |-> "train_r2", validation |-> "dev_r2",
                      test |-> "test_r2"]
      [] r = "r3" -> [train |-> "train_r3", validation |-> "dev_r3",
                      test |-> "test_r3"]

ReadsAnli(task) == task.source.dataset_name = "anli"

----------------------------------------------------------------------------
\* The (key, template) pairs of the collection get pairwise distinct names.
DistinctTaskNames ==
    \A k1, k2 \in DOMAIN disk :
        \A i \in DOMAIN disk[k1] : \A j \in DOMAIN disk[k2] :
            NameOf(k1, disk[k1][i]) = NameOf(k2, disk[k2][j])
                => (k1 = k2 /\ i = j)

\* The names that the script derives for the collection: a rank
\* classification variant per template with fixed labels, an ANLI round name
\* per ANLI template and round.
DerivedNames ==
    LET anli == {NameOf(AN, disk[AN][i]) \o <<r>> :
                    i \in DOMAIN disk[AN], r \in {"r1", "r2", "r3"}}
        base == UNION {{NameOf(k, disk[k][i]) : i \in DOMAIN disk[k]} :
                          k \in DOMAIN disk \ {AN}}
    IN  anli \cup {n \o SCORE_EVAL : n \in anli \cup base}

\* No template outside anli has a task name that is also a derived name.
NoDerivedNameClash ==
    \A k \in DOMAIN disk \ {AN} : \A i \in DOMAIN disk[k] :
        NameOf(k, disk[k][i]) \notin DerivedNames

NothingTwice ==
    /\ NoDup(addCalls)
    /\ NoDup(train_mixture)
    /\ NoDup(eval_mixture)

\* C10 as stated: for any manifest and any collection with distinct task
\* names per (dataset, subset, template), seqio.TaskRegistry.add is called at
\* most once per name, and each name appears at most once in train_mixture
\* and at most once in eval_mixture.
C10_NoNameRegisteredTwice == DistinctTaskNames => NothingTwice

\* C10, amended: the same, provided in addition that no template's task name
\* equals a name the script derives (another task's name followed by
\* _score_eval, or an ANLI round name with or without _score_eval).
C10_NoNameRegisteredTwiceUnlessDerivedClash ==
    (DistinctTaskNames /\ NoDerivedNameClash) => NothingTwice

\* The script has finished on a manifest whose two rows name the same key
\* and flag it for training and for evaluation.
C10_Witness ==
    /\ pc = "done"
    /\ Len(manifest) = 2
    /\ manifest[1] = manifest[2]
    /\ manifest[1].skip = ""
    /\ manifest[1].do_train = "TRUE" /\ manifest[1].do_eval = "TRUE"
    /\ Len(train_mixture) > 0 /\ Len(eval_mixture) > 0
    /\ DistinctTaskNames /\ NoDerivedNameClash

====
